---- MODULE Spec2Model ----
(***************************************************************************)
(* Development-time reverse proxy of the Deno/oak server.                  *)
(*                                                                         *)
(* Modelled code:                                                          *)
(*   - the classifier middleware of server()  (request/index.ts)           *)
(*   - errorMiddleware                         (request/index.ts)          *)
(*   - frontendMiddleware: WebSocket tunnel and HTTP forwarder             *)
(*                                             (middleware/frontend.ts)    *)
(*   - getEnv: the configured upstream target and API prefix (env.ts)      *)
(*   - MySQLUtil.connect and MySQLUtil.transaction  (utils/mysql.ts)       *)
(*                                                                         *)
(* A request r runs through the middleware synchronously up to its first   *)
(* await; every synchronous segment is one action.  The two sockets of a   *)
(* tunnel (ws: downstream, wsClient: upstream) follow the WebSocket API:   *)
(* readyState CONNECTING/OPEN/CLOSING/CLOSED, send() throws while          *)
(* CONNECTING and discards while CLOSING/CLOSED, close() is a no-op once   *)
(* CLOSING/CLOSED, message events are dispatched only while OPEN, and an   *)
(* error event is always followed by a close event, both dispatched after  *)
(* readyState became CLOSED.                                               *)
(***************************************************************************)
EXTENDS Integers, Sequences, FiniteSets, TLC

\* ------------------------------------------------------------------ bounds
\* Request slots of the model.
NReq == 2
\* Messages each peer (client, upstream) may emit per session.
MaxMsg == 2
\* Messages all peers together may emit while sessions run concurrently.
MaxConcMsg == 2
\* Concurrent callers of mysql.transaction.
NCall == 2

\* Rows of the list a caller hands to batchInsert.
MaxRows == 2
\* Calls each caller makes on the MySQL utility, one after the other.
MaxCalls == 2

\* addJob calls that get past the name check, in all.
MaxAdds == 3
\* Executions of job tasks by the scheduler, in all.
MaxRuns == 2

\* ------------------------------------------------------- program constants
WEB_URL == "localhost:5173"
PREFIX == <<"/", "a", "p", "i">>
NotImplemented == 501
InternalServerError == 500
BadGateway == 502
BadGatewayBody == "Bad Gateway"

\* ------------------------------------------------------------ value domain
Reqs == 1..NReq
Calls == 1..NCall
NULL == "null"

\* ctx.response.body values: a record per kind of body.
UndefinedBody == [kind |-> "undefined", text |-> "", chunks |-> <<>>]
NullBody == [kind |-> "null", text |-> "", chunks |-> <<>>]
StreamBody(c) == [kind |-> "stream", text |-> "", chunks |-> c]
TextBody(t) == [kind |-> "text", text |-> t, chunks |-> <<>>]
WebSocketBody == [kind |-> "websocket", text |-> "", chunks |-> <<>>]
\* errorBody(message): {code: 500, data: null, status: 'error', message}
errorBody(message) == [kind |-> "errorBody", text |-> message, chunks |-> <<>>]

\* Exceptions: createHttpError(status) of ctx.throw, and any other Error.
NoError == [kind |-> "none", status |-> 0, message |-> ""]
HttpError(st, msg) == [kind |-> "HttpError", status |-> st, message |-> msg]
OtherError(msg) == [kind |-> "Error", status |-> 0, message |-> msg]
isHttpError(err) == err.kind = "HttpError"

Methods == {"GET", "POST"}
Paths ==
    { <<"/">>, <<"/", "w", "s">>, <<"/", "a", "p", "i", "/", "x">>,
      <<"/", "a", "p", "i", "x">> }
Searches == { <<>>, <<"?", "t">> }
InboundHost == "localhost:8000"
UpgradeValues == {"websocket", "WebSocket", "h2c"}

\* Header sets of inbound requests: host always, accept and upgrade optional.
HeaderSets ==
    { {<<"host", InboundHost>>} \cup a \cup u :
        a \in { {}, {<<"accept", "*/*">>} },
        u \in { {} } \cup { {<<"upgrade", v>>} : v \in UpgradeValues } }

\* Headers.get(name): the value, or null when the header is absent.
HeadersGet(H, name) ==
    IF \E p \in H : p[1] = name
    THEN (CHOOSE p \in H : p[1] = name)[2]
    ELSE NULL

\* String.prototype.toLowerCase over the values drawn here.
toLowerCase(s) ==
    CASE s = "WebSocket" -> "websocket"
      [] OTHER -> s

\* String.prototype.startsWith over character sequences.
startsWith(s, p) ==
    /\ Len(p) <= Len(s)
    /\ SubSeq(s, 1, Len(p)) = p

\* Variant: the header value is compared without toLowerCase().
IsWebSocketUpgrade_caseSensitive(H) == HeadersGet(H, "upgrade") = "websocket"

\* upgrade?.toLowerCase() === "websocket"
IsWebSocketUpgrade(H) ==
    LET upgrade == HeadersGet(H, "upgrade")
    IN  /\ upgrade # NULL
        /\ toLowerCase(upgrade) = "websocket"

\* The inbound requests a client can send.  ctx.isUpgradable is only true for
\* a GET handshake that names websocket; only a POST carries a body here.
RequestInputs ==
    { q \in [ method : Methods, path : Paths, search : Searches,
              headers : HeaderSets, isUpgradable : BOOLEAN, hasBody : BOOLEAN ] :
        /\ q.isUpgradable =>
              /\ q.method = "GET"
              /\ IsWebSocketUpgrade(q.headers)
        /\ q.hasBody => q.method = "POST" }

NoRequest ==
    [ method |-> "GET", path |-> <<"/">>, search |-> <<>>,
      headers |-> {<<"host", InboundHost>>}, isUpgradable |-> FALSE,
      hasBody |-> FALSE ]

\* What the upstream target may answer to an HTTP request.
ResponseHeaderSets ==
    { {<<"content-type", "text/javascript">>},
      {<<"content-type", "text/html">>, <<"cache-control", "no-cache">>} }
ResponseBodies == { NullBody, StreamBody(<<"c1">>), StreamBody(<<"c1", "c2">>) }
UpstreamResponses ==
    [ status : {200, 404, 500}, headers : ResponseHeaderSets, body : ResponseBodies ]
NoResponse == [ status |-> 0, headers |-> {}, body |-> NullBody ]

\* Deno.env.toObject(): every variable getEnv looks at, and PREFIX, which the
\* README names.  A variable that is not set reads as undefined: "" for a
\* string, <<>> for a string kept as its characters; both are falsy.
NoSysEnv ==
    [ DENO_ENV |-> "", PORT |-> <<>>, HOST |-> "", WEB_URL |-> "",
      API_URL |-> <<>>, PREFIX |-> <<>>, DB_URL |-> "", DB_PORT |-> <<>>,
      DB_USER |-> "", DB_PASSWORD |-> "", DB_DATABASE |-> "",
      DEL_LOG_TIME |-> <<>> ]
\* The environments of the proxy: WEB_URL and API_URL set or not.
SysEnvs ==
    { [NoSysEnv EXCEPT !.WEB_URL = w, !.API_URL = a] :
          w \in {"", "127.0.0.1:3000"}, a \in {<<>>, <<"/", "w">>} }
\* Every environment: each variable not set, or set to one value.
EnvInputs ==
    [ DENO_ENV : {"", "test", "production", "staging"},
      PORT : {<<>>, <<"9", "0">>}, HOST : {"", "0.0.0.0"},
      WEB_URL : {"", "127.0.0.1:3000"}, API_URL : {<<>>, <<"/", "w">>},
      PREFIX : {<<>>, <<"/", "v", "1">>}, DB_URL : {"", "db.internal"},
      DB_PORT : {<<>>, <<"3", "3", "0", "7">>}, DB_USER : {"", "app"},
      DB_PASSWORD : {"", "secret"}, DB_DATABASE : {"", "shop"},
      DEL_LOG_TIME : {<<>>, <<"6">>} ]

\* envConfigs: the defaults of each known environment.
envConfigs ==
    [ development |->
        [ PORT |-> 8000, HOST |-> "127.0.0.1", WEB_URL |-> WEB_URL,
          PREFIX |-> PREFIX, DB_URL |-> "localhost", DB_PORT |-> 3306,
          DB_USER |-> "root", DB_PASSWORD |-> "123456", DB_DATABASE |-> "deno",
          DEL_LOG_TIME |-> 12 ],
      test |->
        [ PORT |-> 8001, HOST |-> "127.0.0.1", WEB_URL |-> WEB_URL,
          PREFIX |-> PREFIX, DB_URL |-> "localhost", DB_PORT |-> 3306,
          DB_USER |-> "root", DB_PASSWORD |-> "123456", DB_DATABASE |-> "deno",
          DEL_LOG_TIME |-> 12 ],
      production |->
        [ PORT |-> 80, HOST |-> "0.0.0.0", WEB_URL |-> WEB_URL,
          PREFIX |-> PREFIX, DB_URL |-> "localhost", DB_PORT |-> 3306,
          DB_USER |-> "root", DB_PASSWORD |-> "123456", DB_DATABASE |-> "deno",
          DEL_LOG_TIME |-> 12 ] ]

\* Number(s) of a string of decimal digits.
DigitValue(ch) ==
    CASE ch = "0" -> 0 [] ch = "1" -> 1 [] ch = "2" -> 2 [] ch = "3" -> 3
      [] ch = "4" -> 4 [] ch = "5" -> 5 [] ch = "6" -> 6 [] ch = "7" -> 7
      [] ch = "8" -> 8 [] ch = "9" -> 9
RECURSIVE Number(_)
Number(s) ==
    IF s = <<>> THEN 0
    ELSE 10 * Number(SubSeq(s, 1, Len(s) - 1)) + DigitValue(s[Len(s)])

\* getEnv(): the defaults of sysEnv.DENO_ENV || "development", each replaced
\* by the system variable getEnv reads for it when that one is truthy; an
\* unknown DENO_ENV throws into the catch, which returns envConfigs.development.
getEnv(sysEnv) ==
    LET currentEnv == IF sysEnv.DENO_ENV # "" THEN sysEnv.DENO_ENV ELSE "development"
    IN  IF currentEnv \notin DOMAIN envConfigs
        THEN envConfigs.development
        ELSE LET defaultConfig == envConfigs[currentEnv] IN
          [ PORT |-> IF sysEnv.PORT # <<>> THEN Number(sysEnv.PORT)
                     ELSE defaultConfig.PORT,
            HOST |-> IF sysEnv.HOST # "" THEN sysEnv.HOST ELSE defaultConfig.HOST,
            WEB_URL |-> IF sysEnv.WEB_URL # "" THEN sysEnv.WEB_URL
                        ELSE defaultConfig.WEB_URL,
            PREFIX |-> IF sysEnv.API_URL # <<>> THEN sysEnv.API_URL
                       ELSE defaultConfig.PREFIX,
            DB_URL |-> IF sysEnv.DB_URL # "" THEN sysEnv.DB_URL
                       ELSE defaultConfig.DB_URL,
            DB_PORT |-> IF sysEnv.DB_PORT # <<>> THEN Number(sysEnv.DB_PORT)
                        ELSE defaultConfig.DB_PORT,
            DB_USER |-> IF sysEnv.DB_USER # "" THEN sysEnv.DB_USER
                        ELSE defaultConfig.DB_USER,
            DB_PASSWORD |-> IF sysEnv.DB_PASSWORD # "" THEN sysEnv.DB_PASSWORD
                            ELSE defaultConfig.DB_PASSWORD,
            DB_DATABASE |-> IF sysEnv.DB_DATABASE # "" THEN sysEnv.DB_DATABASE
                            ELSE defaultConfig.DB_DATABASE,
            DEL_LOG_TIME |-> IF sysEnv.DEL_LOG_TIME # <<>>
                             THEN Number(sysEnv.DEL_LOG_TIME)
                             ELSE defaultConfig.DEL_LOG_TIME ]

\* The bytes a caller reads from a response body: none for null/undefined.
Payload(b) == IF b.kind = "stream" THEN b.chunks ELSE <<>>

VARIABLES
    env,          \* the module-level object `env = getEnv()`
    req,          \* r -> the inbound request (ctx.request)
    pc,           \* r -> "absent" | "new" | "body" | "fetch" | "done" | "local"
    outcome,      \* r -> the branch of frontendMiddleware the request ended in
    status,       \* r -> ctx.response.status (0: never set)
    respBody,     \* r -> ctx.response.body
    respHeaders,  \* r -> ctx.response.headers
    escaped,      \* r -> the exception that reached errorMiddleware, or NoError
    propagated,   \* r -> the exception that left errorMiddleware, or NoError
    log,          \* r -> the entries loggerMiddleware wrote for r, in order
    out,          \* r -> the outbound calls (fetch, new WebSocket) made for r
    fetched,      \* r -> what the upstream answered to fetch
    upgraded,     \* r -> ctx.upgrade() was performed
    handlers,     \* r -> the six event handlers were attached (lines 85-95)
    ds,           \* r -> readyState of ws (downstream socket)
    us,           \* r -> readyState of wsClient (upstream socket)
    usConnectFailed, \* r -> wsClient reported a failed connect by an error event
    closedAgain,  \* r -> close() was called on a socket that was already CLOSED
    c2p,          \* r -> client messages in flight to the proxy
    dsRecv,       \* r -> messages dispatched to ws.onmessage, in order
    p2u,          \* r -> messages wsClient.send accepted, in order
    u2p,          \* r -> upstream messages in flight to the proxy
    usRecv,       \* r -> messages dispatched to wsClient.onmessage, in order
    p2c,          \* r -> messages ws.send accepted, in order
    cSent,        \* r -> number of messages the client emitted
    uSent,        \* r -> number of messages the upstream emitted
    uncaught,     \* r -> an event handler threw (send on a CONNECTING socket)
    connectionStatus, \* MySQLUtil.connectionStatus
    pool,         \* MySQLUtil.pool: 0 for null, else the number of the pool
    poolsCreated, \* number of createPool calls so far
    poolsEnded,   \* the pools whose end() has resolved
    lastConnect,  \* how the latest connect or close that completed ended
    tx,           \* c -> the state of caller c's call of a MySQLUtil method
    denoEnv,      \* Deno.env.toObject(), as getEnv() reads it
    jobs,         \* CronJobManager.jobs: the names the Map holds
    adding,       \* name -> addJob calls awaiting logger.info before cron()
    schedules,    \* name -> callbacks registered with cron() for the name
    ran,          \* name -> executions of the job's task so far
    lastCron,     \* the latest addJob/removeJob call and whether it threw
    main          \* the position of main.ts and what it did so far

vars == << env, req, pc, outcome, status, respBody, respHeaders, escaped,
           propagated, log, out,
           fetched, upgraded, handlers, ds, us, usConnectFailed, closedAgain,
           c2p, dsRecv, p2u, u2p, usRecv, p2c, cSent, uSent, uncaught,
           connectionStatus, pool, poolsCreated, poolsEnded, lastConnect, tx,
           denoEnv, jobs, adding, schedules, ran, lastCron, main >>

httpVars == << status, respBody, respHeaders, escaped, out, fetched >>
sockVars == << upgraded, handlers, ds, us, usConnectFailed, closedAgain >>
msgVars == << c2p, dsRecv, p2u, u2p, usRecv, p2c, cSent, uSent, uncaught >>
dbVars == << connectionStatus, pool, poolsCreated, poolsEnded, lastConnect, tx >>
cronVars == << jobs, adding, schedules, ran, lastCron >>
sysVars == << denoEnv, cronVars, main >>
logVars == << propagated, log >>
proxyVars == << env, req, pc, outcome, httpVars, logVars, sockVars, msgVars >>

\* ------------------------------------------------------------------- Init
InitWith(rq, live) ==
    /\ req = rq
    /\ pc = [r \in Reqs |-> IF r \in live THEN "new" ELSE "absent"]
    /\ outcome = [r \in Reqs |-> "none"]
    /\ status = [r \in Reqs |-> 0]
    /\ respBody = [r \in Reqs |-> UndefinedBody]
    /\ respHeaders = [r \in Reqs |-> {}]
    /\ escaped = [r \in Reqs |-> NoError]
    /\ propagated = [r \in Reqs |-> NoError]
    /\ log = [r \in Reqs |-> <<>>]
    /\ out = [r \in Reqs |-> <<>>]
    /\ fetched = [r \in Reqs |-> NoResponse]
    /\ upgraded = [r \in Reqs |-> FALSE]
    /\ handlers = [r \in Reqs |-> FALSE]
    /\ ds = [r \in Reqs |-> "NONE"]
    /\ us = [r \in Reqs |-> "NONE"]
    /\ usConnectFailed = [r \in Reqs |-> FALSE]
    /\ closedAgain = [r \in Reqs |-> FALSE]
    /\ c2p = [r \in Reqs |-> <<>>]
    /\ dsRecv = [r \in Reqs |-> <<>>]
    /\ p2u = [r \in Reqs |-> <<>>]
    /\ u2p = [r \in Reqs |-> <<>>]
    /\ usRecv = [r \in Reqs |-> <<>>]
    /\ p2c = [r \in Reqs |-> <<>>]
    /\ cSent = [r \in Reqs |-> 0]
    /\ uSent = [r \in Reqs |-> 0]
    /\ uncaught = [r \in Reqs |-> FALSE]

\* The MySQL utility after construction (pool = null, connectionStatus =
\* false); every caller of transaction is at `at`.
\* A QueryParams argument: undefined, or an object with the keys `keys`.
Columns == {"name", "email"}
Undefined == [ defined |-> FALSE, keys |-> {} ]
Object(keys) == [ defined |-> TRUE, keys |-> keys ]
QueryParams == {Undefined} \cup { Object(K) : K \in SUBSET Columns }

\* A QueryParams[] argument: undefined, or a list of at most MaxRows objects.
Rows == UNION { [1..n -> SUBSET Columns] : n \in 0..MaxRows }
NoList == [ defined |-> FALSE, rows |-> <<>> ]
List(rows) == [ defined |-> TRUE, rows |-> rows ]
DataLists == {NoList} \cup { List(rows) : rows \in Rows }

\* The arguments of one call of a public method of MySQLUtil.
NoArgs == [ data |-> Undefined, conditions |-> Undefined, dataList |-> NoList ]
Call(op, data, conditions, dataList) ==
    [ op |-> op, data |-> data, conditions |-> conditions, dataList |-> dataList ]
OpInputs ==
    { Call(op, Undefined, Undefined, NoList) :
          op \in {"connect", "close", "query", "execute", "findAll", "findOne"} }
    \cup { Call("insert", d, Undefined, NoList) : d \in QueryParams }
    \cup { Call("update", d, w, NoList) : d \in QueryParams, w \in QueryParams }
    \cup { Call("delete", Undefined, w, NoList) : w \in QueryParams }
    \cup { Call("batchInsert", Undefined, Undefined, l) : l \in DataLists }

NoTx ==
    [ pc |-> "absent", conn |-> 0, began |-> FALSE, commits |-> 0,
      rollbacks |-> 0, releases |-> 0, failure |-> "none", thrown |-> "none",
      value |-> "none", returned |-> "none",
      call |-> Call("transaction", Undefined, Undefined, NoList),
      made |-> 0, sql |-> 0, n |-> 0 ]
DbInit(at) ==
    /\ connectionStatus = FALSE
    /\ pool = 0
    /\ poolsCreated = 0
    /\ poolsEnded = {}
    /\ lastConnect = "none"
    /\ tx = [c \in Calls |-> [NoTx EXCEPT !.pc = at]]

\* CronJobManager after construction (jobs = new Map()), nothing scheduled.
JobNames == {"del_log", "dailyBackup"}
NoCronCall == [ op |-> "none", name |-> "", threw |-> FALSE ]
CronInit ==
    /\ jobs = {}
    /\ adding = [n \in JobNames |-> 0]
    /\ schedules = [n \in JobNames |-> 0]
    /\ ran = [n \in JobNames |-> 0]
    /\ lastCron = NoCronCall

\* main.ts before its first statement (`at` = "start"), or left out ("absent").
MainInit(at) ==
    main = [ pc |-> at, listening |-> FALSE, dbChecked |-> "no",
             failureLogged |-> FALSE, thrown |-> FALSE ]

\* One request, drawn from every inbound request and every environment,
\* handled in isolation.
Init ==
    \E q \in RequestInputs, sysEnv \in SysEnvs :
        /\ denoEnv = sysEnv
        /\ env = getEnv(sysEnv)
        /\ InitWith([r \in Reqs |-> IF r = 1 THEN q ELSE NoRequest], {1})
        /\ DbInit("absent")
        /\ CronInit
        /\ MainInit("absent")

\* --------------------------------------------------- classifier, entry point
\* Variant: only the prefix itself is an API path.
IsLocal_exactMatch(q) == q.path = env.PREFIX

\* path.startsWith(PREFIX): the request is left to the local router.
IsLocal(q) == startsWith(q.path, env.PREFIX)

\* Variant: the outbound call goes to the host the inbound request names.
UpstreamUrl_toRequestHost(scheme, q) ==
    <<scheme, HeadersGet(q.headers, "host")>> \o q.path \o q.search

\* `ws://${env.WEB_URL}${path}${searchParams}`, `http://${env.WEB_URL}...`
UpstreamUrl(scheme, q) == <<scheme, env.WEB_URL>> \o q.path \o q.search

WsCall(q) ==
    [ kind |-> "ws", url |-> UpstreamUrl("ws://", q), method |-> "",
      headers |-> {}, body |-> "none" ]

\* fetch(url, { method, headers: ctx.request.headers, body: requestBody }):
\* the inbound Headers object is handed over as it is; requestBody is the
\* awaited (fully read) body value, or undefined without a body.
FetchCall(q) ==
    [ kind |-> "http", url |-> UpstreamUrl("http://", q), method |-> q.method,
      headers |-> q.headers,
      body |-> IF q.hasBody THEN "buffered" ELSE "none" ]

\* Variant: the catch ignores isHttpError and always answers 500.
errorMiddlewareStatus_always500(err) == InternalServerError

\* errorMiddleware's catch: the thrown HTTP error's status, else 500.
errorMiddlewareStatus(err) ==
    IF isHttpError(err) THEN err.status ELSE InternalServerError

\* err instanceof Error ? err.message : <the fixed text "internal server
\* error", in Chinese>
DefaultMessage == "internal server error (fixed text)"
NonError(v) == [kind |-> "value", status |-> 0, message |-> v]
errorMessage(err) ==
    IF err.kind \in {"HttpError", "Error"} THEN err.message ELSE DefaultMessage

\* Variant: errorMiddleware answers and then throws the error on.
errorMiddleware_rethrows(err) ==
    [ status |-> errorMiddlewareStatus(err),
      body |-> errorBody(errorMessage(err)),
      thrown |-> err ]

\* errorMiddleware, given what `await next()` threw: the status and body its
\* catch sets, and what leaves it (nothing: the catch does not rethrow).
errorMiddleware(err) ==
    [ status |-> errorMiddlewareStatus(err),
      body |-> errorBody(errorMessage(err)),
      thrown |-> NoError ]

\* loggerMiddleware, given what its `await next()` threw: the entry it
\* writes.  Its catch throws the error on.
loggerMiddleware(err) == IF err = NoError THEN "completed" ELSE "error"

\* app.use(loggerMiddleware) comes before app.use(errorMiddleware): the chain
\* below the two ended with `err` (NoError: it returned).  errorMiddleware
\* sees it first, loggerMiddleware sees what errorMiddleware lets through.
\* `entries` are what loggerMiddleware wrote for r before.
Unwind(r, entries, err) ==
    LET thrown == IF err = NoError THEN NoError ELSE errorMiddleware(err).thrown
    IN  /\ propagated' = [propagated EXCEPT ![r] = thrown]
        /\ log' = [log EXCEPT ![r] = Append(entries, loggerMiddleware(thrown))]

\* loggerMiddleware's first entry ("request start").
Started(r) == Append(log[r], "start")

\* API request: await next() hands it to router.routes().
HandleLocal(r) ==
    /\ pc[r] = "new"
    /\ IsLocal(req[r])
    /\ pc' = [pc EXCEPT ![r] = "local"]
    /\ outcome' = [outcome EXCEPT ![r] = "local"]
    /\ log' = [log EXCEPT ![r] = Started(r)]
    /\ UNCHANGED << env, dbVars, sysVars, propagated, req, httpVars, sockVars, msgVars >>

\* What a route handler (or router.allowedMethods()) may throw.
RouteErrors ==
    { HttpError(404, "Not Found"), HttpError(400, "Bad Request"),
      OtherError("boom"), NonError("oops") }

\* The router is done with the request and nothing was thrown: a handler
\* answered, or no route matched.
RouteReturn(r) ==
    /\ pc[r] = "local"
    /\ log[r] = <<"start">>
    /\ \/ /\ status' = [status EXCEPT ![r] = 200]
          /\ respBody' = [respBody EXCEPT ![r] = TextBody("route")]
       \/ /\ status' = [status EXCEPT ![r] = 404]
          /\ UNCHANGED respBody
    /\ Unwind(r, log[r], NoError)
    /\ UNCHANGED << env, dbVars, sysVars, req, pc, outcome, respHeaders, escaped,
                    out, fetched, sockVars, msgVars >>

\* A route handler throws: errorMiddleware's catch sets status and body.
RouteThrow(r) ==
    /\ pc[r] = "local"
    /\ log[r] = <<"start">>
    /\ \E err \in RouteErrors :
          /\ escaped' = [escaped EXCEPT ![r] = err]
          /\ status' = [status EXCEPT ![r] = errorMiddleware(err).status]
          /\ respBody' = [respBody EXCEPT ![r] = errorMiddleware(err).body]
          /\ Unwind(r, log[r], err)
    /\ UNCHANGED << env, dbVars, sysVars, req, pc, outcome, respHeaders, out,
                    fetched, sockVars, msgVars >>

\* Upgrade request on a transport that cannot upgrade: ctx.throw(501) leaves
\* frontendMiddleware and is caught by errorMiddleware.
RejectUpgrade(r) ==
    /\ pc[r] = "new"
    /\ ~IsLocal(req[r])
    /\ IsWebSocketUpgrade(req[r].headers)
    /\ ~req[r].isUpgradable
    /\ LET err == HttpError(NotImplemented, "Not Implemented")
       IN  /\ escaped' = [escaped EXCEPT ![r] = err]
           /\ status' = [status EXCEPT ![r] = errorMiddlewareStatus(err)]
           /\ respBody' = [respBody EXCEPT ![r] = errorBody(err.message)]
           /\ Unwind(r, Started(r), err)
    /\ pc' = [pc EXCEPT ![r] = "done"]
    /\ outcome' = [outcome EXCEPT ![r] = "notUpgradable"]
    /\ UNCHANGED << env, dbVars, sysVars, req, respHeaders, out, fetched, sockVars, msgVars >>

\* Variant: a finished session is taken up again (upgrade, new upstream
\* socket) instead of being left alone.
TunnelAccept_reused(r) ==
    /\ pc[r] \in {"new", "done"}
    /\ ~IsLocal(req[r])
    /\ IsWebSocketUpgrade(req[r].headers)
    /\ req[r].isUpgradable
    /\ upgraded' = [upgraded EXCEPT ![r] = TRUE]
    /\ ds' = [ds EXCEPT ![r] = "CONNECTING"]
    /\ us' = [us EXCEPT ![r] = "CONNECTING"]
    /\ handlers' = [handlers EXCEPT ![r] = TRUE]
    /\ respBody' = [respBody EXCEPT ![r] = WebSocketBody]
    /\ outcome' = [outcome EXCEPT ![r] = "tunnel"]
    /\ pc' = [pc EXCEPT ![r] = "done"]
    /\ out' = [out EXCEPT ![r] = Append(@, WsCall(req[r]))]
    /\ Unwind(r, Started(r), NoError)
    /\ UNCHANGED << env, dbVars, sysVars, req, status, respHeaders, escaped, fetched,
                    usConnectFailed, closedAgain, msgVars >>

\* Accepted upgrade: ctx.upgrade(), then new WebSocket(wsUrl) and the six
\* handlers, or the constructor throws and the catch sets status 500.
TunnelAccept(r) ==
    /\ pc[r] = "new"
    /\ ~IsLocal(req[r])
    /\ IsWebSocketUpgrade(req[r].headers)
    /\ req[r].isUpgradable
    /\ upgraded' = [upgraded EXCEPT ![r] = TRUE]
    /\ ds' = [ds EXCEPT ![r] = "CONNECTING"]
    /\ pc' = [pc EXCEPT ![r] = "done"]
    /\ out' = [out EXCEPT ![r] = Append(@, WsCall(req[r]))]
    /\ \/ /\ us' = [us EXCEPT ![r] = "CONNECTING"]
          /\ handlers' = [handlers EXCEPT ![r] = TRUE]
          /\ respBody' = [respBody EXCEPT ![r] = WebSocketBody]
          /\ outcome' = [outcome EXCEPT ![r] = "tunnel"]
          /\ UNCHANGED status
       \/ /\ status' = [status EXCEPT ![r] = InternalServerError]
          /\ outcome' = [outcome EXCEPT ![r] = "connectThrew"]
          /\ UNCHANGED << us, handlers, respBody >>
    /\ Unwind(r, Started(r), NoError)
    /\ UNCHANGED << env, dbVars, sysVars, req, respHeaders, escaped, fetched, usConnectFailed,
                    closedAgain, msgVars >>

\* ------------------------------------------------------------ HTTP forwarder
\* Variant: the catch rethrows, so errorMiddleware answers 500.
BadGatewayReply_rethrows(r, how) ==
    /\ escaped' = [escaped EXCEPT ![r] = OtherError("fetch failed")]
    /\ status' = [status EXCEPT ![r] = InternalServerError]
    /\ respBody' = [respBody EXCEPT ![r] = errorBody("fetch failed")]
    /\ pc' = [pc EXCEPT ![r] = "done"]
    /\ outcome' = [outcome EXCEPT ![r] = how]
    /\ Unwind(r, log[r], OtherError("fetch failed"))
    /\ UNCHANGED << env, dbVars, sysVars, req, respHeaders, out, fetched, sockVars, msgVars >>

\* The catch of the forwarder: console.error, 502, "Bad Gateway".
BadGatewayReply(r, how) ==
    /\ status' = [status EXCEPT ![r] = BadGateway]
    /\ respBody' = [respBody EXCEPT ![r] = TextBody(BadGatewayBody)]
    /\ pc' = [pc EXCEPT ![r] = "done"]
    /\ outcome' = [outcome EXCEPT ![r] = how]
    /\ Unwind(r, log[r], NoError)
    /\ UNCHANGED << env, dbVars, sysVars, req, respHeaders, escaped, out, fetched, sockVars, msgVars >>

\* Variant: a global lock lets one request at a time talk to the upstream.
ForwardStart_serialized(r) ==
    /\ pc[r] = "new"
    /\ \A s \in Reqs \ {r} : pc[s] \notin {"body", "fetch"}
    /\ ~IsLocal(req[r])
    /\ ~IsWebSocketUpgrade(req[r].headers)
    /\ IF req[r].hasBody
       THEN /\ pc' = [pc EXCEPT ![r] = "body"]
            /\ UNCHANGED out
       ELSE /\ pc' = [pc EXCEPT ![r] = "fetch"]
            /\ out' = [out EXCEPT ![r] = Append(@, FetchCall(req[r]))]
    /\ log' = [log EXCEPT ![r] = Started(r)]
    /\ UNCHANGED << env, dbVars, sysVars, propagated, req, outcome, status, respBody,
                    respHeaders, escaped, fetched, sockVars, msgVars >>

\* Not an upgrade request: with a body, await ctx.request.body().value first;
\* without one, issue the fetch.
ForwardStart(r) ==
    /\ pc[r] = "new"
    /\ ~IsLocal(req[r])
    /\ ~IsWebSocketUpgrade(req[r].headers)
    /\ IF req[r].hasBody
       THEN /\ pc' = [pc EXCEPT ![r] = "body"]
            /\ UNCHANGED out
       ELSE /\ pc' = [pc EXCEPT ![r] = "fetch"]
            /\ out' = [out EXCEPT ![r] = Append(@, FetchCall(req[r]))]
    /\ log' = [log EXCEPT ![r] = Started(r)]
    /\ UNCHANGED << env, dbVars, sysVars, propagated, req, outcome, status, respBody,
                    respHeaders, escaped, fetched, sockVars, msgVars >>

\* The awaited body value arrived: the whole body is in memory; fetch is issued.
BodyRead(r) ==
    /\ pc[r] = "body"
    /\ pc' = [pc EXCEPT ![r] = "fetch"]
    /\ out' = [out EXCEPT ![r] = Append(@, FetchCall(req[r]))]
    /\ UNCHANGED << env, dbVars, sysVars, logVars, req, outcome, status, respBody, respHeaders, escaped,
                    fetched, sockVars, msgVars >>

\* ctx.request.body().value throws or rejects: caught, no fetch is issued.
BodyReadFail(r) ==
    /\ pc[r] = "body"
    /\ BadGatewayReply(r, "bodyFailed")

\* Variant: an upstream 5xx answer is turned into 502 "Bad Gateway".
MirroredResponse_5xxAsBadGateway(response, oldBody) ==
    IF response.status >= 500
    THEN [ headers |-> {}, status |-> BadGateway, body |-> TextBody(BadGatewayBody) ]
    ELSE [ headers |-> response.headers, status |-> response.status,
           body |-> IF response.body.kind # "null" THEN response.body ELSE oldBody ]

\* Lines 117-126: new Headers(response.headers), response.status, and
\* response.body when it is not null (else ctx.response.body is left alone).
MirroredResponse(response, oldBody) ==
    [ headers |-> response.headers,
      status |-> response.status,
      body |-> IF response.body.kind # "null" THEN response.body ELSE oldBody ]

\* fetch resolved: headers, status and body are set from the response.
FetchReply(r) ==
    /\ pc[r] = "fetch"
    /\ \E response \in UpstreamResponses :
        LET m == MirroredResponse(response, respBody[r])
        IN  /\ fetched' = [fetched EXCEPT ![r] = response]
            /\ respHeaders' = [respHeaders EXCEPT ![r] = m.headers]
            /\ status' = [status EXCEPT ![r] = m.status]
            /\ respBody' = [respBody EXCEPT ![r] = m.body]
    /\ pc' = [pc EXCEPT ![r] = "done"]
    /\ outcome' = [outcome EXCEPT ![r] = "mirrored"]
    /\ Unwind(r, log[r], NoError)
    /\ UNCHANGED << env, dbVars, sysVars, req, escaped, out, sockVars, msgVars >>

\* fetch rejected (connection refused, DNS failure, ...): caught.
FetchFail(r) ==
    /\ pc[r] = "fetch"
    /\ BadGatewayReply(r, "fetchFailed")

\* ---------------------------------------------------------- WebSocket tunnel
\* Variant: close() starts a closing handshake whatever the readyState is.
WsClose_unguarded(state) == "CLOSING"

\* WebSocket.close(): starts closing unless already CLOSING or CLOSED.
WsClose(state) ==
    IF state \in {"CONNECTING", "OPEN"} THEN "CLOSING" ELSE state

\* Variant: a send overtakes the messages queued before it.
WsSend_prepends(state, sent, data) ==
    IF state = "OPEN" THEN <<data>> \o sent ELSE sent

\* WebSocket.send(data): queued on an OPEN socket, InvalidStateError on a
\* CONNECTING one, silently discarded on a CLOSING or CLOSED one.
WsSend(state, sent, data) ==
    IF state = "OPEN" THEN Append(sent, data) ELSE sent
WsSendThrows(state) == state = "CONNECTING"

\* The handlers of lines 85-95, as functions of the two readyStates.
\* wsClient.onclose = () => ws.close()
wsClient_onclose(dsState, usState) == [ds |-> WsClose(dsState), us |-> usState]
\* wsClient.onerror = (_e) => { ws.close() }
wsClient_onerror(dsState, usState) == [ds |-> WsClose(dsState), us |-> usState]
\* Variant: ws.onclose closes ws (as ws.onerror does), not wsClient.
ws_onclose_closesItself(dsState, usState) ==
    [ds |-> WsClose(dsState), us |-> usState]
\* ws.onclose = () => wsClient.close()
ws_onclose(dsState, usState) == [ds |-> dsState, us |-> WsClose(usState)]
\* ws.onerror = (_e) => { ws.close() }
ws_onerror(dsState, usState) == [ds |-> WsClose(dsState), us |-> usState]

\* A handler calls close() on a socket that is CLOSED in state s.  The
\* sockets it calls close() on are those it moves when both are OPEN:
\* `probe` is the handler's result on two OPEN sockets.
CloseOnClosed(probe, s) ==
    \/ probe.ds # "OPEN" /\ s.ds = "CLOSED"
    \/ probe.us # "OPEN" /\ s.us = "CLOSED"

\* ws became CLOSED; its events are dispatched: error (if any), then close.
DsClosedEvents(r, withError) ==
    LET s0 == [ds |-> "CLOSED", us |-> us[r]]
        s1 == IF handlers[r] /\ withError THEN ws_onerror(s0.ds, s0.us) ELSE s0
        s2 == IF handlers[r] THEN ws_onclose(s1.ds, s1.us) ELSE s1
        again == /\ handlers[r]
                 /\ \/ withError /\ CloseOnClosed(ws_onerror("OPEN", "OPEN"), s0)
                    \/ CloseOnClosed(ws_onclose("OPEN", "OPEN"), s1)
    IN  /\ ds' = [ds EXCEPT ![r] = s2.ds]
        /\ us' = [us EXCEPT ![r] = s2.us]
        /\ closedAgain' = [closedAgain EXCEPT ![r] = @ \/ again]

\* wsClient became CLOSED; its events are dispatched: error (if any), then close.
UsClosedEvents(r, withError) ==
    LET s0 == [ds |-> ds[r], us |-> "CLOSED"]
        s1 == IF withError THEN wsClient_onerror(s0.ds, s0.us) ELSE s0
        s2 == wsClient_onclose(s1.ds, s1.us)
        again == \/ withError /\ CloseOnClosed(wsClient_onerror("OPEN", "OPEN"), s0)
                 \/ CloseOnClosed(wsClient_onclose("OPEN", "OPEN"), s1)
    IN  /\ ds' = [ds EXCEPT ![r] = s2.ds]
        /\ us' = [us EXCEPT ![r] = s2.us]
        /\ closedAgain' = [closedAgain EXCEPT ![r] = @ \/ again]

\* The downstream handshake completed: ws is OPEN.
DsOpen(r) ==
    /\ ds[r] = "CONNECTING"
    /\ ds' = [ds EXCEPT ![r] = "OPEN"]
    /\ UNCHANGED << env, dbVars, sysVars, logVars, req, pc, outcome, httpVars, upgraded, handlers, us,
                    usConnectFailed, closedAgain, msgVars >>

\* The client emits its next message.
ClientSend(r) ==
    /\ ds[r] = "OPEN"
    /\ cSent[r] < MaxMsg
    /\ cSent' = [cSent EXCEPT ![r] = @ + 1]
    /\ c2p' = [c2p EXCEPT ![r] = Append(@, <<r, cSent[r] + 1>>)]
    /\ UNCHANGED << env, dbVars, sysVars, logVars, req, pc, outcome, httpVars, sockVars, dsRecv, p2u, u2p,
                    usRecv, p2c, uSent, uncaught >>

\* Variant: wsClient is one variable shared by all requests, so the handler
\* sends on the upstream socket of the latest session (the highest slot).
DsMessage_sharedClient(r) ==
    /\ ds[r] = "OPEN"
    /\ c2p[r] # <<>>
    /\ c2p' = [c2p EXCEPT ![r] = Tail(@)]
    /\ dsRecv' = [dsRecv EXCEPT ![r] = Append(@, Head(c2p[r]))]
    /\ IF handlers[r]
       THEN LET t == CHOOSE s \in Reqs :
                        handlers[s] /\ \A s2 \in Reqs : handlers[s2] => s2 <= s
            IN  /\ p2u' = [p2u EXCEPT ![t] = WsSend(us[t], @, Head(c2p[r]))]
                /\ uncaught' = [uncaught EXCEPT ![r] = @ \/ WsSendThrows(us[t])]
       ELSE UNCHANGED << p2u, uncaught >>
    /\ UNCHANGED << env, dbVars, sysVars, logVars, req, pc, outcome, httpVars, sockVars, u2p, usRecv, p2c,
                    cSent, uSent >>

\* message event on ws: ws.onmessage = (e) => wsClient.send(e.data)
DsMessage(r) ==
    /\ ds[r] = "OPEN"
    /\ c2p[r] # <<>>
    /\ c2p' = [c2p EXCEPT ![r] = Tail(@)]
    /\ dsRecv' = [dsRecv EXCEPT ![r] = Append(@, Head(c2p[r]))]
    /\ IF handlers[r]
       THEN /\ p2u' = [p2u EXCEPT ![r] = WsSend(us[r], @, Head(c2p[r]))]
            /\ uncaught' = [uncaught EXCEPT ![r] = @ \/ WsSendThrows(us[r])]
       ELSE UNCHANGED << p2u, uncaught >>
    /\ UNCHANGED << env, dbVars, sysVars, logVars, req, pc, outcome, httpVars, sockVars, u2p, usRecv, p2c,
                    cSent, uSent >>

\* The client closes after its last message was received: close event on ws.
DsClientClose(r) ==
    /\ ds[r] = "OPEN"
    /\ c2p[r] = <<>>
    /\ DsClosedEvents(r, FALSE)
    /\ UNCHANGED << env, dbVars, sysVars, logVars, req, pc, outcome, httpVars, upgraded, handlers,
                    usConnectFailed, msgVars >>

\* The downstream connection breaks: error event, then close event on ws.
DsError(r) ==
    /\ ds[r] \in {"CONNECTING", "OPEN", "CLOSING"}
    /\ DsClosedEvents(r, TRUE)
    /\ UNCHANGED << env, dbVars, sysVars, logVars, req, pc, outcome, httpVars, upgraded, handlers,
                    usConnectFailed, msgVars >>

\* The close that ws.close() started completes: close event on ws.
DsCloseDone(r) ==
    /\ ds[r] = "CLOSING"
    /\ DsClosedEvents(r, FALSE)
    /\ UNCHANGED << env, dbVars, sysVars, logVars, req, pc, outcome, httpVars, upgraded, handlers,
                    usConnectFailed, msgVars >>

\* The upstream handshake completed: wsClient is OPEN.
UsOpen(r) ==
    /\ us[r] = "CONNECTING"
    /\ us' = [us EXCEPT ![r] = "OPEN"]
    /\ UNCHANGED << env, dbVars, sysVars, logVars, req, pc, outcome, httpVars, upgraded, handlers, ds,
                    usConnectFailed, closedAgain, msgVars >>

\* The upstream connect fails: error event, then close event on wsClient.
UsConnectFail(r) ==
    /\ us[r] = "CONNECTING"
    /\ UsClosedEvents(r, TRUE)
    /\ usConnectFailed' = [usConnectFailed EXCEPT ![r] = TRUE]
    /\ UNCHANGED << env, dbVars, sysVars, logVars, req, pc, outcome, httpVars, upgraded, handlers, msgVars >>

\* The upstream emits its next message.
UpstreamSend(r) ==
    /\ us[r] = "OPEN"
    /\ uSent[r] < MaxMsg
    /\ uSent' = [uSent EXCEPT ![r] = @ + 1]
    /\ u2p' = [u2p EXCEPT ![r] = Append(@, <<r, uSent[r] + 1>>)]
    /\ UNCHANGED << env, dbVars, sysVars, logVars, req, pc, outcome, httpVars, sockVars, c2p, dsRecv, p2u,
                    usRecv, p2c, cSent, uncaught >>

\* message event on wsClient: wsClient.onmessage = (e) => ws.send(e.data)
UsMessage(r) ==
    /\ us[r] = "OPEN"
    /\ u2p[r] # <<>>
    /\ u2p' = [u2p EXCEPT ![r] = Tail(@)]
    /\ usRecv' = [usRecv EXCEPT ![r] = Append(@, Head(u2p[r]))]
    /\ p2c' = [p2c EXCEPT ![r] = WsSend(ds[r], @, Head(u2p[r]))]
    /\ uncaught' = [uncaught EXCEPT ![r] = @ \/ WsSendThrows(ds[r])]
    /\ UNCHANGED << env, dbVars, sysVars, logVars, req, pc, outcome, httpVars, sockVars, c2p, dsRecv, p2u,
                    cSent, uSent >>

\* The upstream closes after its last message was received: close event.
UsPeerClose(r) ==
    /\ us[r] = "OPEN"
    /\ u2p[r] = <<>>
    /\ UsClosedEvents(r, FALSE)
    /\ UNCHANGED << env, dbVars, sysVars, logVars, req, pc, outcome, httpVars, upgraded, handlers,
                    usConnectFailed, msgVars >>

\* The open upstream connection breaks: error event, then close event.
UsError(r) ==
    /\ us[r] \in {"OPEN", "CLOSING"}
    /\ UsClosedEvents(r, TRUE)
    /\ UNCHANGED << env, dbVars, sysVars, logVars, req, pc, outcome, httpVars, upgraded, handlers,
                    usConnectFailed, msgVars >>

\* The close that wsClient.close() started completes: close event.
UsCloseDone(r) ==
    /\ us[r] = "CLOSING"
    /\ UsClosedEvents(r, FALSE)
    /\ UNCHANGED << env, dbVars, sysVars, logVars, req, pc, outcome, httpVars, upgraded, handlers,
                    usConnectFailed, msgVars >>

\* ---------------------------------------------------------- specifications
Next ==
    \E r \in Reqs :
        \/ HandleLocal(r)
        \/ RouteReturn(r)
        \/ RouteThrow(r)
        \/ RejectUpgrade(r)
        \/ TunnelAccept(r)
        \/ ForwardStart(r)
        \/ BodyRead(r)
        \/ BodyReadFail(r)
        \/ FetchReply(r)
        \/ FetchFail(r)
        \/ DsOpen(r)
        \/ ClientSend(r)
        \/ DsMessage(r)
        \/ DsClientClose(r)
        \/ DsError(r)
        \/ DsCloseDone(r)
        \/ UsOpen(r)
        \/ UsConnectFail(r)
        \/ UpstreamSend(r)
        \/ UsMessage(r)
        \/ UsPeerClose(r)
        \/ UsError(r)
        \/ UsCloseDone(r)

Spec == Init /\ [][Next]_vars

\* A close in progress completes: the peer answers the close frame or the
\* transport is torn down; the event loop then dispatches the close event.
Fairness ==
    \A r \in Reqs :
        /\ WF_vars(DsCloseDone(r))
        /\ WF_vars(UsCloseDone(r))

FairSpec == Spec /\ Fairness

\* Concurrent requests: every slot holds a live request, one of an upgrade
\* (on an upgradable transport or not), a POST for the upstream, and an API
\* call.  The event loop interleaves their synchronous segments.
ConcInputs ==
    { [ method |-> "GET", path |-> <<"/", "w", "s">>, search |-> <<>>,
        headers |-> {<<"host", InboundHost>>, <<"upgrade", "websocket">>},
        isUpgradable |-> TRUE, hasBody |-> FALSE ],
      [ method |-> "GET", path |-> <<"/", "w", "s">>, search |-> <<>>,
        headers |-> {<<"host", InboundHost>>, <<"upgrade", "websocket">>},
        isUpgradable |-> FALSE, hasBody |-> FALSE ],
      [ method |-> "POST", path |-> <<"/">>, search |-> <<>>,
        headers |-> {<<"host", InboundHost>>}, isUpgradable |-> FALSE,
        hasBody |-> TRUE ],
      [ method |-> "GET", path |-> <<"/", "a", "p", "i", "/", "x">>,
        search |-> <<>>, headers |-> {<<"host", InboundHost>>},
        isUpgradable |-> FALSE, hasBody |-> FALSE ] }

InitConc ==
    \E rq \in [Reqs -> ConcInputs] :
        /\ denoEnv = NoSysEnv
        /\ env = getEnv(NoSysEnv)
        /\ InitWith(rq, Reqs)
        /\ DbInit("absent")
        /\ CronInit
        /\ MainInit("absent")

RECURSIVE SumUpTo(_, _)
SumUpTo(f, n) == IF n = 0 THEN 0 ELSE f[n] + SumUpTo(f, n - 1)
\* Messages emitted by all clients and upstreams together.
TotalSent == SumUpTo(cSent, NReq) + SumUpTo(uSent, NReq)

\* The steps of Next, the peers emitting at most MaxConcMsg messages in all.
NextConc ==
    \E r \in Reqs :
        \/ HandleLocal(r)
        \/ RouteReturn(r)
        \/ RouteThrow(r)
        \/ RejectUpgrade(r)
        \/ TunnelAccept(r)
        \/ ForwardStart(r)
        \/ BodyRead(r)
        \/ BodyReadFail(r)
        \/ FetchReply(r)
        \/ FetchFail(r)
        \/ DsOpen(r)
        \/ TotalSent < MaxConcMsg /\ ClientSend(r)
        \/ DsMessage(r)
        \/ DsClientClose(r)
        \/ DsError(r)
        \/ DsCloseDone(r)
        \/ UsOpen(r)
        \/ UsConnectFail(r)
        \/ TotalSent < MaxConcMsg /\ UpstreamSend(r)
        \/ UsMessage(r)
        \/ UsPeerClose(r)
        \/ UsError(r)
        \/ UsCloseDone(r)

SpecConc == InitConc /\ [][NextConc]_vars

\* ------------------------------------------------------ mysql.transaction
\* What a transaction callback may resolve to.
CallbackValues == {"v1", "v2"}

\* transaction(callback) is called: await this.connect().  Connected: connect
\* returns at once.  Not connected: createPool, then the test query is awaited.
TxStart(c) ==
    /\ tx[c].pc = "idle"
    /\ IF connectionStatus
       THEN /\ tx' = [tx EXCEPT ![c].pc = "getConnection"]
            /\ UNCHANGED << pool, poolsCreated >>
       ELSE /\ poolsCreated' = poolsCreated + 1
            /\ pool' = poolsCreated + 1
            /\ tx' = [tx EXCEPT ![c].pc = "connecting"]
    /\ UNCHANGED << connectionStatus, poolsEnded, lastConnect, proxyVars, sysVars >>

\* The test query returned: connectionStatus = true.
TxConnectOk(c) ==
    /\ tx[c].pc = "connecting"
    /\ connectionStatus' = TRUE
    /\ lastConnect' = "ok"
    /\ tx' = [tx EXCEPT ![c].pc = "getConnection"]
    /\ UNCHANGED << pool, poolsCreated, poolsEnded, proxyVars, sysVars >>

\* The test query failed: connect throws, and so does transaction.
TxConnectFail(c) ==
    /\ tx[c].pc = "connecting"
    /\ lastConnect' = "failed"
    /\ tx' = [tx EXCEPT ![c].pc = "thrown", ![c].thrown = "connect"]
    /\ UNCHANGED << connectionStatus, pool, poolsCreated, poolsEnded, proxyVars, sysVars >>

\* await this.pool.getConnection()
TxGetConnection(c) ==
    /\ tx[c].pc = "getConnection"
    /\ \/ tx' = [tx EXCEPT ![c].pc = "begin", ![c].conn = pool]
       \/ tx' = [tx EXCEPT ![c].pc = "thrown", ![c].thrown = "getConnection"]
    /\ UNCHANGED << connectionStatus, pool, poolsCreated, poolsEnded, lastConnect,
                    proxyVars, sysVars >>

\* await connection.beginTransaction(), before the try block.
TxBegin(c) ==
    /\ tx[c].pc = "begin"
    /\ \/ tx' = [tx EXCEPT ![c].pc = "callback", ![c].began = TRUE]
       \/ tx' = [tx EXCEPT ![c].pc = "thrown", ![c].thrown = "beginTransaction"]
    /\ UNCHANGED << connectionStatus, pool, poolsCreated, poolsEnded, lastConnect,
                    proxyVars, sysVars >>

\* const result = await callback(connection): resolves, or rejects into catch.
TxCallback(c) ==
    /\ tx[c].pc = "callback"
    /\ \/ \E v \in CallbackValues :
             tx' = [tx EXCEPT ![c].pc = "commit", ![c].value = v]
       \/ tx' = [tx EXCEPT ![c].pc = "rollback", ![c].failure = "callback"]
    /\ UNCHANGED << connectionStatus, pool, poolsCreated, poolsEnded, lastConnect,
                    proxyVars, sysVars >>

\* await connection.commit(): then return result through finally (release),
\* or the rejection goes to catch.
TxCommit(c) ==
    /\ tx[c].pc = "commit"
    /\ \/ tx' = [tx EXCEPT ![c].pc = "returned", ![c].commits = @ + 1,
                            ![c].releases = @ + 1,
                            ![c].returned = tx[c].value]
       \/ tx' = [tx EXCEPT ![c].pc = "rollback", ![c].failure = "commit"]
    /\ UNCHANGED << connectionStatus, pool, poolsCreated, poolsEnded, lastConnect,
                    proxyVars, sysVars >>

\* catch: await connection.rollback(); throw error.  When rollback() itself
\* rejects, its error leaves the catch in place of the first one; finally
\* releases the connection either way.
TxRollback(c) ==
    /\ tx[c].pc = "rollback"
    /\ \/ tx' = [tx EXCEPT ![c].pc = "thrown", ![c].rollbacks = @ + 1,
                            ![c].releases = @ + 1,
                            ![c].thrown = tx[c].failure]
       \/ tx' = [tx EXCEPT ![c].pc = "thrown", ![c].releases = @ + 1,
                            ![c].thrown = "rollback"]
    /\ UNCHANGED << connectionStatus, pool, poolsCreated, poolsEnded, lastConnect,
                    proxyVars, sysVars >>

\* ------------------------------------------------- MySQLUtil, every method
\* !data || Object.keys(data).length === 0
isEmpty(o) == ~o.defined \/ Cardinality(o.keys) = 0

\* Variant: the rows need only have as many columns as the first one.
sameColumns_byCount(columns, currentColumns) ==
    Cardinality(currentColumns) = Cardinality(columns)

\* The negation of batchInsert's per-row test: currentColumns.length ===
\* columns.length && columns.every(col => currentColumns.includes(col))
sameColumns(columns, currentColumns) ==
    /\ Cardinality(currentColumns) = Cardinality(columns)
    /\ \A col \in columns : col \in currentColumns

\* The argument checks at the head of insert, update, delete and batchInsert:
\* the message of the Error thrown, "" when the checks pass.
Validate(a) ==
    CASE a.op = "insert" ->
           IF isEmpty(a.data) THEN "insert: empty data" ELSE ""
      [] a.op = "update" ->
           IF isEmpty(a.data) THEN "update: empty data"
           ELSE IF isEmpty(a.conditions) THEN "update: empty conditions"
           ELSE ""
      [] a.op = "delete" ->
           IF isEmpty(a.conditions) THEN "delete: empty conditions" ELSE ""
      [] a.op = "batchInsert" ->
           IF ~a.dataList.defined \/ Len(a.dataList.rows) = 0
           THEN "batchInsert: empty list"
           ELSE IF Cardinality(a.dataList.rows[1]) = 0
           THEN "batchInsert: empty object"
           ELSE IF \E i \in 1..Len(a.dataList.rows) :
                      ~sameColumns(a.dataList.rows[1], a.dataList.rows[i])
           THEN "batchInsert: columns differ"
           ELSE ""
      [] OTHER -> ""

\* this.pool.query / this.pool.execute is called on the current pool.
Statement(c) ==
    [tx EXCEPT ![c].pc = "statement", ![c].conn = pool, ![c].sql = @ + 1]

\* A public method other than transaction is called.  The argument checks
\* throw first; close() returns at once when not connected, else awaits
\* pool.end(); batchInsert calls this.pool.execute with no connect() before
\* it (a TypeError on the null pool, rethrown by its catch); every other
\* method goes through connect(), which returns at once when connected and
\* else creates a pool and awaits the test query.
OpCall(c) ==
    /\ tx[c].pc = "idle"
    /\ \E a \in OpInputs :
         LET t == [tx EXCEPT ![c].call = a] IN
         IF Validate(a) # ""
         THEN /\ tx' = [t EXCEPT ![c].pc = "thrown", ![c].thrown = Validate(a)]
              /\ UNCHANGED << connectionStatus, pool, poolsCreated >>
         ELSE IF a.op = "close"
         THEN /\ IF ~connectionStatus \/ pool = 0
                 THEN tx' = [t EXCEPT ![c].pc = "returned"]
                 ELSE tx' = [t EXCEPT ![c].pc = "ending", ![c].conn = pool]
              /\ UNCHANGED << connectionStatus, pool, poolsCreated >>
         ELSE IF a.op = "batchInsert"
         THEN /\ IF pool = 0
                 THEN tx' = [t EXCEPT ![c].pc = "thrown", ![c].thrown = "TypeError"]
                 ELSE tx' = [t EXCEPT ![c].pc = "statement", ![c].conn = pool,
                                      ![c].sql = @ + 1]
              /\ UNCHANGED << connectionStatus, pool, poolsCreated >>
         ELSE IF connectionStatus
         THEN /\ IF a.op = "connect"
                 THEN tx' = [t EXCEPT ![c].pc = "returned"]
                 ELSE tx' = [t EXCEPT ![c].pc = "statement", ![c].conn = pool,
                                      ![c].sql = @ + 1]
              /\ UNCHANGED << connectionStatus, pool, poolsCreated >>
         ELSE /\ poolsCreated' = poolsCreated + 1
              /\ pool' = poolsCreated + 1
              /\ tx' = [t EXCEPT ![c].pc = "testQuery",
                                  ![c].made = poolsCreated + 1]
              /\ UNCHANGED connectionStatus
    /\ UNCHANGED << poolsEnded, lastConnect, proxyVars, sysVars >>

\* connect(): the test query returned, connectionStatus = true; connect()
\* itself is done, any other method goes on to its statement.
OpConnectOk(c) ==
    /\ tx[c].pc = "testQuery"
    /\ connectionStatus' = TRUE
    /\ lastConnect' = "ok"
    /\ IF tx[c].call.op = "connect"
       THEN tx' = [tx EXCEPT ![c].pc = "returned"]
       ELSE tx' = Statement(c)
    /\ UNCHANGED << pool, poolsCreated, poolsEnded, proxyVars, sysVars >>

\* connect(): the test query failed; the error is logged and thrown on.
OpConnectFail(c) ==
    /\ tx[c].pc = "testQuery"
    /\ lastConnect' = "failed"
    /\ tx' = [tx EXCEPT ![c].pc = "thrown", ![c].thrown = "connect"]
    /\ UNCHANGED << connectionStatus, pool, poolsCreated, poolsEnded, proxyVars,
                    sysVars >>

\* The statement returned its rows or its result; a pool that was ended
\* runs no statement.
OpStatementOk(c) ==
    /\ tx[c].pc = "statement"
    /\ tx[c].conn \notin poolsEnded
    /\ tx' = [tx EXCEPT ![c].pc = "returned"]
    /\ UNCHANGED << connectionStatus, pool, poolsCreated, poolsEnded, lastConnect,
                    proxyVars, sysVars >>

\* The statement failed: the catch block logs the error and throws it on.
OpStatementFail(c) ==
    /\ tx[c].pc = "statement"
    /\ tx' = [tx EXCEPT ![c].pc = "thrown", ![c].thrown = "sql"]
    /\ UNCHANGED << connectionStatus, pool, poolsCreated, poolsEnded, lastConnect,
                    proxyVars, sysVars >>

\* Variant: close() forgets to clear connectionStatus.
OpEndOk_staysConnected(c) ==
    /\ tx[c].pc = "ending"
    /\ poolsEnded' = poolsEnded \cup {tx[c].conn}
    /\ lastConnect' = "closed"
    /\ tx' = [tx EXCEPT ![c].pc = "returned"]
    /\ UNCHANGED << connectionStatus, pool, poolsCreated, proxyVars, sysVars >>

\* close(): pool.end() resolved, connectionStatus = false.  this.pool keeps
\* the ended pool.
OpEndOk(c) ==
    /\ tx[c].pc = "ending"
    /\ connectionStatus' = FALSE
    /\ poolsEnded' = poolsEnded \cup {tx[c].conn}
    /\ lastConnect' = "closed"
    /\ tx' = [tx EXCEPT ![c].pc = "returned"]
    /\ UNCHANGED << pool, poolsCreated, proxyVars, sysVars >>

\* close(): pool.end() rejected; the error is logged and thrown on.
OpEndFail(c) ==
    /\ tx[c].pc = "ending"
    /\ tx' = [tx EXCEPT ![c].pc = "thrown", ![c].thrown = "close"]
    /\ UNCHANGED << connectionStatus, pool, poolsCreated, poolsEnded, lastConnect,
                    proxyVars, sysVars >>

\* The caller's call is over; it makes its next one.
CallAgain(c) ==
    /\ tx[c].pc \in {"returned", "thrown"}
    /\ tx[c].n + 1 < MaxCalls
    /\ tx' = [tx EXCEPT ![c] = [NoTx EXCEPT !.pc = "idle", !.n = tx[c].n + 1]]
    /\ UNCHANGED << connectionStatus, pool, poolsCreated, poolsEnded, lastConnect,
                    proxyVars, sysVars >>

NextMysql ==
    \E c \in Calls :
        \/ OpCall(c)
        \/ OpConnectOk(c)
        \/ OpConnectFail(c)
        \/ OpStatementOk(c)
        \/ OpStatementFail(c)
        \/ OpEndOk(c)
        \/ OpEndFail(c)
        \/ CallAgain(c)
        \/ TxStart(c)
        \/ TxConnectOk(c)
        \/ TxConnectFail(c)
        \/ TxGetConnection(c)
        \/ TxBegin(c)
        \/ TxCallback(c)
        \/ TxCommit(c)
        \/ TxRollback(c)

\* The MySQL utility alone: NCall callers of transaction, no request.
InitDb ==
    /\ denoEnv = NoSysEnv
    /\ env = getEnv(NoSysEnv)
    /\ InitWith([r \in Reqs |-> NoRequest], {})
    /\ DbInit("idle")
    /\ CronInit
    /\ MainInit("absent")

NextDb ==
    \E c \in Calls :
        \/ TxStart(c)
        \/ TxConnectOk(c)
        \/ TxConnectFail(c)
        \/ TxGetConnection(c)
        \/ TxBegin(c)
        \/ TxCallback(c)
        \/ TxCommit(c)
        \/ TxRollback(c)

SpecDb == InitDb /\ [][NextDb]_vars

\* The MySQL utility alone: NCall callers, each making MaxCalls calls of any
\* public method with any arguments.
SpecMysql == InitDb /\ [][NextMysql]_vars

\* ---------------------------------------------------------- CronJobManager
\* Sum of a counter over the job names.
RECURSIVE Total(_, _)
Total(f, S) ==
    IF S = {} THEN 0
    ELSE LET n == CHOOSE x \in S : TRUE IN f[n] + Total(f, S \ {n})

\* addJob(config), up to its await: a name the Map has throws; else the Map
\* gets the entry and logger.info is awaited.
AddJob(n) ==
    /\ IF n \in jobs
       THEN /\ lastCron' = [ op |-> "addJob", name |-> n, threw |-> TRUE ]
            /\ UNCHANGED << jobs, adding >>
       ELSE /\ Total(adding, JobNames) + Total(schedules, JobNames) < MaxAdds
            /\ jobs' = jobs \cup {n}
            /\ adding' = [adding EXCEPT ![n] = @ + 1]
            /\ lastCron' = [ op |-> "addJob", name |-> n, threw |-> FALSE ]
    /\ UNCHANGED << schedules, ran, main, denoEnv, env, dbVars, req, pc, outcome,
                    httpVars, sockVars, msgVars, logVars >>

\* addJob after its await: cron(config.schedule, callback) registers the
\* callback with the scheduler.
AddJobScheduled(n) ==
    /\ adding[n] > 0
    /\ adding' = [adding EXCEPT ![n] = @ - 1]
    /\ schedules' = [schedules EXCEPT ![n] = @ + 1]
    /\ UNCHANGED << jobs, ran, lastCron, main, denoEnv, env, dbVars, req, pc,
                    outcome, httpVars, sockVars, msgVars, logVars >>

\* removeJob(jobName): a name the Map lacks throws; else the entry is deleted
\* and the removal logged.  Nothing is said to the scheduler.
RemoveJob(n) ==
    /\ IF n \notin jobs
       THEN /\ lastCron' = [ op |-> "removeJob", name |-> n, threw |-> TRUE ]
            /\ UNCHANGED jobs
       ELSE /\ jobs' = jobs \ {n}
            /\ lastCron' = [ op |-> "removeJob", name |-> n, threw |-> FALSE ]
    /\ UNCHANGED << adding, schedules, ran, main, denoEnv, env, dbVars, req, pc,
                    outcome, httpVars, sockVars, msgVars, logVars >>

\* The scheduler reaches the time of a callback registered for n: the
\* callback awaits config.task() and logs success or the task's error.
Tick(n) ==
    /\ schedules[n] > 0
    /\ Total(ran, JobNames) < MaxRuns
    /\ ran' = [ran EXCEPT ![n] = @ + 1]
    /\ UNCHANGED << jobs, adding, schedules, lastCron, main, denoEnv, env, dbVars,
                    req, pc, outcome, httpVars, sockVars, msgVars, logVars >>

\* The cron manager alone, any caller adding and removing jobs.
InitCron ==
    /\ denoEnv = NoSysEnv
    /\ env = getEnv(NoSysEnv)
    /\ InitWith([r \in Reqs |-> NoRequest], {})
    /\ DbInit("absent")
    /\ CronInit
    /\ MainInit("absent")

NextCron ==
    \E n \in JobNames :
        \/ AddJob(n)
        \/ AddJobScheduled(n)
        \/ RemoveJob(n)
        \/ Tick(n)

SpecCron == InitCron /\ [][NextCron]_vars

\* ------------------------------------------------------------------ getEnv
\* The module env.ts before `export const env = getEnv()` has run.
NoEnv ==
    [ PORT |-> 0, HOST |-> "", WEB_URL |-> "", PREFIX |-> <<>>, DB_URL |-> "",
      DB_PORT |-> 0, DB_USER |-> "", DB_PASSWORD |-> "", DB_DATABASE |-> "",
      DEL_LOG_TIME |-> 0 ]

\* export const env = getEnv()
LoadEnv ==
    /\ env = NoEnv
    /\ env' = getEnv(denoEnv)
    /\ UNCHANGED << denoEnv, cronVars, main, dbVars, req, pc, outcome, httpVars,
                    sockVars, msgVars, logVars >>

\* The configuration alone, under every environment.
InitEnv ==
    /\ denoEnv \in EnvInputs
    /\ env = NoEnv
    /\ InitWith([r \in Reqs |-> NoRequest], {})
    /\ DbInit("absent")
    /\ CronInit
    /\ MainInit("absent")

NextEnv == LoadEnv

SpecEnv == InitEnv /\ [][NextEnv]_vars

\* ----------------------------------------------------------------- main.ts
\* server(routerArr), not awaited: it runs up to `await app.listen(...)`, so
\* the middleware chain is installed and the listener is started.
MainServer ==
    /\ main.pc = "start"
    /\ main' = [main EXCEPT !.pc = "check", !.listening = TRUE]
    /\ UNCHANGED << denoEnv, cronVars, dbVars, proxyVars >>

\* try { await mysql.connect(): connect() returns at once when connected,
\* else creates the pool and awaits the test query.
MainConnect ==
    /\ main.pc = "check"
    /\ IF connectionStatus
       THEN /\ main' = [main EXCEPT !.pc = "cron", !.dbChecked = "ok"]
            /\ UNCHANGED << pool, poolsCreated >>
       ELSE /\ poolsCreated' = poolsCreated + 1
            /\ pool' = poolsCreated + 1
            /\ main' = [main EXCEPT !.pc = "testQuery"]
    /\ UNCHANGED << connectionStatus, poolsEnded, lastConnect, tx, denoEnv, cronVars,
                    proxyVars >>

\* The test query returned: main logs the success and goes on.
MainConnectOk ==
    /\ main.pc = "testQuery"
    /\ connectionStatus' = TRUE
    /\ lastConnect' = "ok"
    /\ main' = [main EXCEPT !.pc = "cron", !.dbChecked = "ok"]
    /\ UNCHANGED << pool, poolsCreated, poolsEnded, tx, denoEnv, cronVars, proxyVars >>

\* Variant: the catch of main throws the error on; the uncaught error ends
\* the process.
MainConnectFail_rethrows ==
    /\ main.pc = "testQuery"
    /\ lastConnect' = "failed"
    /\ main' = [main EXCEPT !.pc = "crashed", !.dbChecked = "failed",
                            !.failureLogged = TRUE, !.thrown = TRUE,
                            !.listening = FALSE]
    /\ UNCHANGED << connectionStatus, pool, poolsCreated, poolsEnded, tx, denoEnv,
                    cronVars, proxyVars >>

\* The test query failed: connect() throws, main's catch logs the failure
\* and does not throw.
MainConnectFail ==
    /\ main.pc = "testQuery"
    /\ lastConnect' = "failed"
    /\ main' = [main EXCEPT !.pc = "cron", !.dbChecked = "failed",
                            !.failureLogged = TRUE]
    /\ UNCHANGED << connectionStatus, pool, poolsCreated, poolsEnded, tx, denoEnv,
                    cronVars, proxyVars >>

\* cronManager.addJob({ name: "del_log", ... }), not awaited: addJob up to
\* its await.
MainAddJob ==
    /\ main.pc = "cron"
    /\ IF "del_log" \in jobs
       THEN /\ lastCron' = [ op |-> "addJob", name |-> "del_log", threw |-> TRUE ]
            /\ UNCHANGED << jobs, adding >>
       ELSE /\ jobs' = jobs \cup {"del_log"}
            /\ adding' = [adding EXCEPT !["del_log"] = @ + 1]
            /\ lastCron' = [ op |-> "addJob", name |-> "del_log", threw |-> FALSE ]
    /\ main' = [main EXCEPT !.pc = "done"]
    /\ UNCHANGED << schedules, ran, denoEnv, dbVars, proxyVars >>

\* The listening server receives a request.
Arrive(r) ==
    /\ main.listening
    /\ pc[r] = "absent"
    /\ pc' = [pc EXCEPT ![r] = "new"]
    /\ UNCHANGED << env, dbVars, sysVars, logVars, req, outcome, httpVars, sockVars,
                    msgVars >>

\* The program from its start: main.ts, the requests the server receives
\* once it listens (the first one of any kind, the others plain GETs), and
\* the scheduler.
InitMain ==
    \E q \in ConcInputs :
        /\ denoEnv = NoSysEnv
        /\ env = getEnv(NoSysEnv)
        /\ InitWith([r \in Reqs |-> IF r = 1 THEN q ELSE NoRequest], {})
        /\ DbInit("absent")
        /\ CronInit
        /\ MainInit("start")

NextMain ==
    \/ MainServer
    \/ MainConnect
    \/ MainConnectOk
    \/ MainConnectFail
    \/ MainAddJob
    \/ AddJobScheduled("del_log")
    \/ Tick("del_log")
    \/ \E r \in Reqs :
        \/ Arrive(r)
        \/ HandleLocal(r)
        \/ RouteReturn(r)
        \/ RouteThrow(r)
        \/ RejectUpgrade(r)
        \/ TunnelAccept(r)
        \/ ForwardStart(r)
        \/ BodyRead(r)
        \/ BodyReadFail(r)
        \/ FetchReply(r)
        \/ FetchFail(r)
        \/ DsOpen(r)
        \/ TotalSent < MaxConcMsg /\ ClientSend(r)
        \/ DsMessage(r)
        \/ DsClientClose(r)
        \/ DsError(r)
        \/ DsCloseDone(r)
        \/ UsOpen(r)
        \/ UsConnectFail(r)
        \/ TotalSent < MaxConcMsg /\ UpstreamSend(r)
        \/ UsMessage(r)
        \/ UsPeerClose(r)
        \/ UsError(r)
        \/ UsCloseDone(r)

SpecMain == InitMain /\ [][NextMain]_vars

\* ------------------------------------------------------------------ claims
RECURSIVE IsSubseq(_, _)
\* a is an order-preserving subsequence of b.
IsSubseq(a, b) ==
    IF a = <<>> THEN TRUE
    ELSE IF b = <<>> THEN FALSE
    ELSE IF Head(a) = Head(b) THEN IsSubseq(Tail(a), Tail(b))
    ELSE IsSubseq(a, Tail(b))

HttpCalls(r) == { i \in DOMAIN out[r] : out[r][i].kind = "http" }
IsProxied(r) == pc[r] \notin {"absent", "new"} /\ ~IsLocal(req[r])

\* C1: in a relay session (both sockets exist), once the downstream socket is
\* closed (by a close or an error) the upstream socket eventually is closed,
\* and once the upstream socket is closed (close, error, failed connect) the
\* downstream socket eventually is closed, whichever side is first and also
\* while the upstream socket is still CONNECTING.
C1_TearDown ==
    \A r \in Reqs :
        /\ (handlers[r] /\ ds[r] = "CLOSED") ~> (us[r] = "CLOSED")
        /\ (handlers[r] /\ us[r] = "CLOSED") ~> (ds[r] = "CLOSED")

C1_Witness ==
    \E r \in Reqs :
        /\ handlers[r]
        /\ ds[r] = "CLOSED"
        /\ us[r] = "CLOSED"
        /\ p2u[r] # <<>>
        /\ p2c[r] # <<>>

\* C2: when opening the upstream connection failed after the downstream
\* upgrade (the constructor threw, or an error event reported it), the
\* downstream connection is closed (closing or closed).
C2_RejectedClosesDownstream ==
    \A r \in Reqs :
        (upgraded[r] /\ (outcome[r] = "connectThrew" \/ usConnectFailed[r]))
            => ds[r] \in {"CLOSING", "CLOSED"}

\* C3: every message the proxy received from the client was forwarded to the
\* upstream connection: the forwarded sequence is the received sequence.
C3_NoClientMessageDropped ==
    \A r \in Reqs : handlers[r] => p2u[r] = dsRecv[r]

\* C4: in each direction the messages handed to the receiving connection are
\* in the order in which the proxy received them.
C4_Fifo ==
    \A r \in Reqs :
        /\ IsSubseq(p2u[r], dsRecv[r])
        /\ IsSubseq(p2c[r], usRecv[r])

C4_Witness ==
    \E r \in Reqs :
        /\ Len(p2u[r]) = 2
        /\ Len(p2c[r]) = 2

\* C5: an upgrade request on a transport that cannot upgrade ends with status
\* 501, without a downstream upgrade and without any upstream connection.
C5_NotUpgradable ==
    \A r \in Reqs :
        ( /\ IsProxied(r)
          /\ IsWebSocketUpgrade(req[r].headers)
          /\ ~req[r].isUpgradable )
        => /\ pc[r] = "done"
           /\ status[r] = 501
           /\ ~upgraded[r]
           /\ ds[r] = "NONE"
           /\ us[r] = "NONE"
           /\ out[r] = <<>>

C5_Witness ==
    \E r \in Reqs :
        /\ outcome[r] = "notUpgradable"
        /\ HeadersGet(req[r].headers, "upgrade") = "WebSocket"
        /\ status[r] = 501

\* C6: a failed fetch ends the request with status 502 and the body
\* "Bad Gateway", and no exception leaves frontendMiddleware.
C6_BadGateway ==
    \A r \in Reqs :
        outcome[r] = "fetchFailed"
        => /\ pc[r] = "done"
           /\ status[r] = 502
           /\ respBody[r] = TextBody("Bad Gateway")
           /\ escaped[r] = NoError

C6_Witness ==
    \E r \in Reqs :
        /\ outcome[r] = "fetchFailed"
        /\ Len(out[r]) = 1
        /\ status[r] = 502

\* C7: the outbound HTTP request has the inbound method and the inbound
\* headers, except that host is the upstream target's address.
C7_HostReplaced ==
    \A r \in Reqs : \A i \in HttpCalls(r) :
        /\ out[r][i].method = req[r].method
        /\ out[r][i].headers =
              { h \in req[r].headers : h[1] # "host" } \cup { <<"host", env.WEB_URL>> }

\* C8: a finished proxied request that is not an upgrade request made exactly
\* one HTTP request, to http://<target><path><query>, and no WebSocket
\* connection; an accepted upgrade made exactly one WebSocket connection, to
\* ws://<target><path><query>, and no HTTP request.
C8_ExactlyOneOutboundCall ==
    \A r \in Reqs :
        (pc[r] = "done" /\ ~IsLocal(req[r]))
        => /\ ~IsWebSocketUpgrade(req[r].headers)
                => /\ Len(out[r]) = 1
                   /\ out[r][1].kind = "http"
                   /\ out[r][1].url =
                        <<"http://", env.WEB_URL>> \o req[r].path \o req[r].search
           /\ upgraded[r]
                => /\ Len(out[r]) = 1
                   /\ out[r][1].kind = "ws"
                   /\ out[r][1].url =
                        <<"ws://", env.WEB_URL>> \o req[r].path \o req[r].search

\* C9: when the upstream answered, the caller's response has the upstream's
\* status, headers and body, for every status.
C9_Mirrored ==
    \A r \in Reqs :
        outcome[r] = "mirrored"
        => /\ status[r] = fetched[r].status
           /\ respHeaders[r] = fetched[r].headers
           /\ respBody[r].kind \in {"stream", "undefined"}
           /\ Payload(respBody[r]) = Payload(fetched[r].body)

C9_Witness ==
    \E r \in Reqs :
        /\ outcome[r] = "mirrored"
        /\ status[r] = 500
        /\ Len(Payload(respBody[r])) = 2

\* C10: a request with a body is forwarded as a stream: the outbound request
\* is issued while the inbound body is not yet read completely, and it does
\* not carry a body buffered in memory.
C10_BodyStreamed ==
    \A r \in Reqs :
        /\ pc[r] = "body" => HttpCalls(r) # {}
        /\ \A i \in HttpCalls(r) : out[r][i].body # "buffered"


\* C11: the classification depends on the request path and the configured
\* prefix only: a dispatched request whose path starts with the prefix is
\* at the local router and has caused no outbound call, no upgrade and no
\* upstream socket; every other dispatched request is never at the local
\* router (frontendMiddleware never calls next).
C11_Classifier ==
    \A r \in Reqs :
        pc[r] \notin {"absent", "new"}
        => LET p == req[r].path
               k == Len(env.PREFIX)
               local == /\ Len(p) >= k
                        /\ \A i \in 1..k : p[i] = env.PREFIX[i]
           IN  IF local
               THEN /\ pc[r] = "local"
                    /\ outcome[r] = "local"
                    /\ out[r] = <<>>
                    /\ ~upgraded[r]
                    /\ us[r] = "NONE"
               ELSE /\ pc[r] # "local"
                    /\ outcome[r] # "local"

C11_Witness ==
    \E r \in Reqs :
        /\ outcome[r] = "local"
        /\ req[r].path = <<"/", "a", "p", "i", "x">>
        /\ req[r].isUpgradable
        /\ out[r] = <<>>


\* C12: a request at the proxy is in the tunnel branch (upgrade check,
\* tunnel, failed upstream constructor) exactly when its Upgrade header is
\* "websocket" in any letter case, and in the forwarder branch otherwise
\* (header absent or another value); in every later state of the request the
\* branch is still the one the header selects, and its outbound calls are of
\* that branch only.
C12_Dispatch ==
    \A r \in Reqs :
        IsProxied(r)
        => LET v == HeadersGet(req[r].headers, "upgrade")
           IN  IF v \in {"websocket", "WebSocket"}
               THEN /\ outcome[r] \in {"notUpgradable", "tunnel", "connectThrew"}
                    /\ HttpCalls(r) = {}
               ELSE /\ \/ pc[r] \in {"body", "fetch"}
                       \/ outcome[r] \in {"bodyFailed", "fetchFailed", "mirrored"}
                    /\ ~upgraded[r]
                    /\ HttpCalls(r) = DOMAIN out[r]

C12_Witness ==
    \E r \in Reqs :
        /\ outcome[r] = "tunnel"
        /\ HeadersGet(req[r].headers, "upgrade") = "WebSocket"
        /\ us[r] = "OPEN"
        /\ ds[r] = "OPEN"


\* C13 (as stated): in no step of a relay session is close() called on a
\* socket that is already CLOSED, and a socket that is CLOSED stays CLOSED.
C13_NeverClosedAgain ==
    [][\A r \in Reqs :
          /\ ~closedAgain'[r]
          /\ ds[r] = "CLOSED" => ds'[r] = "CLOSED"
          /\ us[r] = "CLOSED" => us'[r] = "CLOSED"]_vars

\* C13 (amended): the handlers do call close() on a socket that is already
\* CLOSED (ws.onerror on ws itself, wsClient.onclose on a ws that closed
\* first, ws.onclose on a wsClient that closed first), but such a call has no
\* effect: a CLOSED socket stays CLOSED, no handler throws in that step, and
\* no message is forwarded by it.
C13_CloseIdempotent ==
    [][\A r \in Reqs :
          /\ ds[r] = "CLOSED" => ds'[r] = "CLOSED"
          /\ us[r] = "CLOSED" => us'[r] = "CLOSED"
          /\ (closedAgain'[r] /\ ~closedAgain[r])
                => /\ uncaught'[r] = uncaught[r]
                   /\ p2u'[r] = p2u[r]
                   /\ p2c'[r] = p2c[r]
                   /\ ds'[r] \in {"CLOSING", "CLOSED"}]_vars

C13_Witness ==
    \E r \in Reqs :
        /\ handlers[r]
        /\ closedAgain[r]
        /\ ds[r] = "CLOSED"
        /\ us[r] = "CLOSED"
        /\ ~uncaught[r]


\* C14: once both sockets of a relay session are CLOSED, every later step
\* leaves them CLOSED, forwards no message in either direction, dispatches
\* no message event and makes no further outbound call for the session.
C14_ClosedIsTerminal ==
    [][\A r \in Reqs :
          (handlers[r] /\ ds[r] = "CLOSED" /\ us[r] = "CLOSED")
          => /\ ds'[r] = "CLOSED"
             /\ us'[r] = "CLOSED"
             /\ p2u'[r] = p2u[r]
             /\ p2c'[r] = p2c[r]
             /\ dsRecv'[r] = dsRecv[r]
             /\ usRecv'[r] = usRecv[r]
             /\ out'[r] = out[r]]_vars

C14_Witness ==
    \E r \in Reqs :
        /\ handlers[r]
        /\ ds[r] = "CLOSED"
        /\ us[r] = "CLOSED"
        /\ c2p[r] # <<>>
        /\ Len(out[r]) = 1


\* C15: a message event of a relay session is handed to the peer socket only
\* when that socket is not CONNECTING, and whenever a message is forwarded
\* the session has exactly one upstream connection, made after the upgrade,
\* and the receiving socket is OPEN.
C15_ForwardOnlyWhenOpen ==
    [][\A r \in Reqs :
          handlers[r]
          => /\ dsRecv'[r] # dsRecv[r] => us[r] # "CONNECTING"
             /\ usRecv'[r] # usRecv[r] => ds[r] # "CONNECTING"
             /\ p2u'[r] # p2u[r] => us[r] = "OPEN"
             /\ p2c'[r] # p2c[r] => ds[r] = "OPEN"
             /\ (p2u'[r] # p2u[r] \/ p2c'[r] # p2c[r])
                   => /\ upgraded[r]
                      /\ Len(out[r]) = 1
                      /\ out[r][1].kind = "ws"]_vars


\* C17: no event handler of a relay session ends with an exception that
\* nobody catches: a send on a socket that is not open is dealt with inside
\* the session.
C17_NoUncaughtException ==
    \A r \in Reqs : upgraded[r] => ~uncaught[r]


\* C19: no step changes the configured upstream target, and every outbound
\* call (fetch or new WebSocket) made so far went to that host:port.
C19_TargetFixed ==
    [][/\ env' = env
       /\ \A r \in Reqs : \A i \in DOMAIN out'[r] :
             out'[r][i].url[2] = env.WEB_URL]_vars

C19_Witness ==
    \E r \in Reqs :
        /\ env.WEB_URL = "127.0.0.1:3000"
        /\ outcome[r] = "mirrored"
        /\ Len(out[r]) = 1
        /\ out[r][1].url[2] = "127.0.0.1:3000"


\* C16: with all requests running concurrently, every relay session has
\* exactly one upstream connection of its own, every message handed to a
\* socket of session r was received in session r, and no step changes the
\* sockets of more than one session.
C16_SessionIsolation ==
    [][/\ \A r \in Reqs :
             /\ handlers'[r] => (Len(out'[r]) = 1 /\ out'[r][1].kind = "ws")
             /\ \A i \in DOMAIN p2u'[r] : p2u'[r][i][1] = r
             /\ \A i \in DOMAIN p2c'[r] : p2c'[r][i][1] = r
       /\ Cardinality({ r \in Reqs : ds'[r] # ds[r] \/ us'[r] # us[r] }) <= 1]_vars

C16_Witness ==
    \E r, s \in Reqs :
        /\ r # s
        /\ handlers[r] /\ handlers[s]
        /\ ds[r] = "CLOSED" /\ us[r] = "CLOSED"
        /\ ds[s] = "OPEN" /\ us[s] = "OPEN"
        /\ p2c[r] # <<>>
        /\ p2u[s] # <<>>

\* C18: whatever the other requests are waiting for, the next step of a
\* request is possible: a new request can be dispatched, a request reading
\* its body or waiting for fetch can go on as soon as its own event arrives,
\* and the handshakes of a session can complete.
C18_Independent ==
    \A r \in Reqs :
        /\ pc[r] = "new"
              => ENABLED ( \/ HandleLocal(r) \/ RejectUpgrade(r)
                           \/ TunnelAccept(r) \/ ForwardStart(r) )
        /\ pc[r] = "body" => ENABLED BodyRead(r)
        /\ pc[r] = "fetch" => ENABLED FetchReply(r)
        /\ ds[r] = "CONNECTING" => ENABLED DsOpen(r)
        /\ us[r] = "CONNECTING" => ENABLED UsOpen(r)

C18_Witness ==
    \E r, s \in Reqs :
        /\ r # s
        /\ pc[s] = "fetch"
        /\ outcome[r] = "mirrored"
        /\ pc[r] = "done"


\* C20: a transaction call that fails after the transaction began has rolled
\* back once, has not committed, and throws the error of the step that
\* failed first; a call that returns has committed exactly once, has not
\* rolled back, and returns the callback's result; no call has both a
\* successful commit and a successful rollback.
C20_Transaction ==
    \A c \in Calls :
        LET t == tx[c]
        IN  /\ (t.pc = "thrown" /\ t.began)
                  => /\ t.rollbacks = 1
                     /\ t.commits = 0
                     /\ t.thrown = t.failure
            /\ t.pc = "returned"
                  => /\ t.commits = 1
                     /\ t.rollbacks = 0
                     /\ t.returned = t.value
                     /\ t.value \in CallbackValues
            /\ ~(t.commits > 0 /\ t.rollbacks > 0)



\* C21: the MySQL utility keeps a single connection pool: every pool ever
\* created is the current one (this.pool) or has been ended, over every
\* interleaving of the callers' connect, query, execute, transaction and
\* close calls.
C21_SinglePool ==
    \A p \in 1..poolsCreated : p = pool \/ p \in poolsEnded


\* The calls C24 names: insert with empty data, update with empty data or
\* empty conditions, delete with empty conditions, batchInsert with an empty
\* list, an empty first object, or a row whose column set is not the first
\* row's.
C24_Rejected(a) ==
    \/ a.op = "insert" /\ (~a.data.defined \/ a.data.keys = {})
    \/ a.op = "update" /\ (~a.data.defined \/ a.data.keys = {})
    \/ a.op = "update" /\ (~a.conditions.defined \/ a.conditions.keys = {})
    \/ a.op = "delete" /\ (~a.conditions.defined \/ a.conditions.keys = {})
    \/ /\ a.op = "batchInsert"
       /\ \/ ~a.dataList.defined
          \/ a.dataList.rows = <<>>
          \/ a.dataList.rows[1] = {}
          \/ \E i \in DOMAIN a.dataList.rows :
                a.dataList.rows[i] # a.dataList.rows[1]

\* C24: a call with such arguments throws at once: no SQL statement is
\* issued for it, no pool is created, and connectionStatus, the pool and the
\* ended pools are what they were before the call.
C24_ValidationFirst ==
    [][\A c \in Calls :
          (tx[c].pc = "idle" /\ tx'[c].pc # "idle" /\ C24_Rejected(tx'[c].call))
          => /\ tx'[c].pc = "thrown"
             /\ tx'[c].thrown \notin {"none", "TypeError", "connect", "sql"}
             /\ tx'[c].sql = 0
             /\ tx'[c].made = 0
             /\ connectionStatus' = connectionStatus
             /\ pool' = pool
             /\ poolsCreated' = poolsCreated
             /\ poolsEnded' = poolsEnded]_vars

\* A batchInsert whose second row has other columns than the first was
\* rejected on a connected instance.
C24_Witness ==
    \E c \in Calls :
        /\ connectionStatus
        /\ tx[c].pc = "thrown"
        /\ tx[c].call.op = "batchInsert"
        /\ Len(tx[c].call.dataList.rows) = 2
        /\ tx[c].call.dataList.rows[1] # tx[c].call.dataList.rows[2]
        /\ tx[c].call.dataList.rows[1] # {}


\* C29: getConnectionStatus() is true exactly when the connect that completed
\* last succeeded and no close has succeeded since (so after a failed connect
\* it is false), and whenever it is true the pool is not null.
C29_StatusTracksConnect ==
    /\ connectionStatus <=> lastConnect = "ok"
    /\ connectionStatus => pool # 0


\* C30: close() on an instance that is not connected returns without throwing
\* and changes nothing; a close whose pool.end() resolves sets the status to
\* false, and the next query, execute or transaction then creates a new pool
\* and connects with it; a close whose pool.end() rejects throws that error
\* and does not touch the status.
C30_Close ==
    [][\A c \in Calls :
          /\ (/\ tx[c].pc = "idle" /\ tx'[c].pc # "idle"
              /\ tx'[c].call.op = "close" /\ ~connectionStatus)
             => /\ tx'[c].pc = "returned"
                /\ tx'[c].thrown = "none"
                /\ UNCHANGED << connectionStatus, pool, poolsCreated, poolsEnded >>
          /\ (tx[c].pc = "ending" /\ tx'[c].pc = "returned")
             => /\ ~connectionStatus'
                /\ tx[c].conn \in poolsEnded'
          /\ (/\ tx[c].pc = "idle" /\ tx'[c].pc # "idle"
              /\ tx'[c].call.op \in {"query", "execute", "transaction"}
              /\ lastConnect = "closed")
             => /\ poolsCreated' = poolsCreated + 1
                /\ pool' = poolsCreated'
                /\ pool' \notin poolsEnded'
                /\ tx'[c].pc \in {"testQuery", "connecting"}
          /\ (tx[c].pc = "ending" /\ tx'[c].pc # "ending" /\ tx'[c].pc # "returned")
             => /\ tx'[c].pc = "thrown"
                /\ tx'[c].thrown = "close"
                /\ UNCHANGED connectionStatus]_vars

\* After a close that succeeded, a query has created a new pool and awaits
\* its test query.
C30_Witness ==
    \E c \in Calls :
        /\ lastConnect = "closed"
        /\ ~connectionStatus
        /\ tx[c].call.op = "query"
        /\ tx[c].pc = "testQuery"
        /\ tx[c].made = pool
        /\ poolsEnded # {}
        /\ pool \notin poolsEnded


\* C22: after removeJob(name) succeeded the job is no scheduled task any
\* more: the scheduler executes the task of no name that the registry
\* (getJobs()) does not hold.
C22_RemovedNeverRuns ==
    [][\A n \in JobNames : ran'[n] > ran[n] => n \in jobs]_vars


\* C23: addJob of a registered name throws, leaves the registry as it was and
\* schedules nothing; removeJob of a name that is not registered throws and
\* leaves the registry as it was; so every name in the registry has exactly
\* one scheduled task (registered with cron() or about to be).
C23_OneTaskPerName ==
    /\ [][\A n \in JobNames :
            /\ (lastCron' = [ op |-> "addJob", name |-> n, threw |-> TRUE ]
                    /\ lastCron' # lastCron)
               => n \in jobs /\ UNCHANGED << jobs, adding, schedules >>
            /\ (n \in jobs /\ lastCron' # lastCron /\ lastCron'.op = "addJob"
                    /\ lastCron'.name = n)
               => lastCron'.threw /\ UNCHANGED << jobs, adding, schedules >>
            /\ (n \notin jobs /\ lastCron' # lastCron
                    /\ lastCron'.op = "removeJob" /\ lastCron'.name = n)
               => lastCron'.threw /\ UNCHANGED << jobs, adding, schedules >>]_vars
    /\ [](\A n \in jobs : adding[n] + schedules[n] = 1)


\* The keys of the README's table.
C25_Keys ==
    { "PORT", "HOST", "WEB_URL", "PREFIX", "DB_URL", "DB_PORT", "DB_USER",
      "DB_PASSWORD", "DB_DATABASE", "DEL_LOG_TIME" }
\* The value of a system variable as the configuration holds it.
C25_Value(key, v) ==
    IF key \in {"PORT", "DB_PORT", "DEL_LOG_TIME"} THEN Number(v) ELSE v
\* The defaults listed for the current environment (development when
\* DENO_ENV names none of the three).
C25_Defaults ==
    IF denoEnv.DENO_ENV \in DOMAIN envConfigs THEN envConfigs[denoEnv.DENO_ENV]
    ELSE envConfigs.development
\* A variable that is not set.
C25_Unset(key) ==
    IF key \in {"PORT", "DB_PORT", "DEL_LOG_TIME", "PREFIX"}
    THEN denoEnv[key] = <<>> ELSE denoEnv[key] = ""

\* C25: for every key of the README's table the loaded configuration holds
\* the value of the system variable of that name when it is set, and the
\* default of the current environment otherwise.
C25_EnvOverrides ==
    env # NoEnv =>
        \A key \in C25_Keys :
            env[key] = IF C25_Unset(key) THEN C25_Defaults[key]
                       ELSE C25_Value(key, denoEnv[key])


\* C26: when something below errorMiddleware threw, the request ends with a
\* response: its status is the thrown HTTP error's status, or 500 for any
\* other error, its body is the standard error body, and nothing leaves
\* errorMiddleware.
C26_ErrorAnswered ==
    \A r \in Reqs :
        escaped[r] # NoError
        => /\ status[r] = IF escaped[r].kind = "HttpError"
                          THEN escaped[r].status ELSE InternalServerError
           /\ respBody[r].kind = "errorBody"
           /\ escaped[r].kind \in {"HttpError", "Error"}
                 => respBody[r].text = escaped[r].message
           /\ propagated[r] = NoError

\* A route handler threw a plain Error, and another one an HTTP error.
C26_Witness ==
    \E r \in Reqs :
        /\ pc[r] = "local"
        /\ escaped[r] = OtherError("boom")
        /\ status[r] = InternalServerError
        /\ respBody[r] = errorBody("boom")

\* C27: for a request whose handling threw, loggerMiddleware wrote a
\* request-error entry and no request-completed entry.
C27_FailureLogged ==
    \A r \in Reqs :
        escaped[r] # NoError
        => /\ \E i \in DOMAIN log[r] : log[r][i] = "error"
           /\ \A i \in DOMAIN log[r] : log[r][i] # "completed"


\* C28: when the database check at startup has failed, the process keeps
\* running: the server listens, the failure was logged and not thrown on,
\* main goes on to register the log-cleanup job, and once main is through
\* the job is in the registry.
C28_StartupSurvivesDbFailure ==
    /\ main.pc # "start" => main.listening
    /\ main.dbChecked = "failed"
       => /\ main.listening
          /\ main.failureLogged
          /\ ~main.thrown
          /\ main.pc \in {"cron", "done"}
          /\ main.pc = "done" => "del_log" \in jobs

\* After a failed check a request was forwarded and answered, and the
\* scheduler has run the registered cleanup job.
C28_Witness ==
    /\ main.dbChecked = "failed"
    /\ main.pc = "done"
    /\ ~connectionStatus
    /\ schedules["del_log"] = 1
    /\ ran["del_log"] > 0
    /\ \E r \in Reqs : pc[r] = "done" /\ outcome[r] = "mirrored"


\* C31: every data operation (query, execute, findAll, findOne, insert,
\* update, delete, transaction, batchInsert) that is called with acceptable
\* arguments while the instance is not connected first establishes the
\* connection (it creates the pool and awaits the test query), and no
\* operation ever meets a null pool.
C31_ConnectsFirst ==
    /\ [][\A c \in Calls :
            (/\ tx[c].pc = "idle" /\ tx'[c].pc # "idle"
             /\ tx'[c].call.op \notin {"connect", "close"}
             /\ Validate(tx'[c].call) = ""
             /\ ~connectionStatus)
            => /\ tx'[c].pc \in {"testQuery", "connecting"}
               /\ poolsCreated' = poolsCreated + 1
               /\ pool' # 0]_vars
    /\ [](\A c \in Calls : tx[c].thrown # "TypeError")

\* C32: a transaction call that is over and had obtained a connection from
\* the pool has released it exactly once, whichever step failed.
C32_ReleasedOnce ==
    \A c \in Calls :
        (tx[c].pc \in {"returned", "thrown"} /\ tx[c].conn # 0)
        => tx[c].releases = 1

====
